---- MODULE Spec2Model ----
(***************************************************************************)
(* hardboiled: SiteBuilder (src/src/hardboiled/builder.py), Config         *)
(* (src/src/hardboiled/config.py) and the driver (src/skeleton/main.py)    *)
(* as state machines over a file tree and a process environment.           *)
(*                                                                         *)
(* A file tree is a function from paths to nodes.  A path is a sequence of *)
(* path components relative to the tree's root directory; the root itself  *)
(* is the empty path, and a tree whose domain is empty is a directory that *)
(* does not exist.  Text is a sequence of tokens.                          *)
(***************************************************************************)
EXTENDS Integers, Sequences, FiniteSets, TLC

VARIABLES static_dir, build_dir, last, environ, cfg, driver

vars == <<static_dir, build_dir, last, environ, cfg, driver>>

(* ------------------------------ bounds --------------------------------- *)

MaxSubdirs == 1

MaxPatterns == 1

MaxPages == 2

(* ------------------------------ strings -------------------------------- *)

\* The characters of the strings whose characters the code inspects
\* (glob matching of names, str.isupper, str.startswith).
Chars(s) ==
  CASE s = "style.css"  -> <<"s","t","y","l","e",".","c","s","s">>
    [] s = "main.css"   -> <<"m","a","i","n",".","c","s","s">>
    [] s = "css"        -> <<"c","s","s">>
    [] s = "app.js"     -> <<"a","p","p",".","j","s">>
    [] s = "img"        -> <<"i","m","g">>
    [] s = "logo.css"   -> <<"l","o","g","o",".","c","s","s">>
    [] s = "src"        -> <<"s","r","c">>
    [] s = "static"     -> <<"s","t","a","t","i","c">>
    [] s = "*.css"      -> <<"*",".","c","s","s">>
    [] s = "*.CSS"      -> <<"*",".","C","S","S">>
    [] s = "c?s"        -> <<"c","?","s">>
    [] s = "SITE_NAME"  -> <<"S","I","T","E","_","N","A","M","E">>
    [] s = "SITE_URL"   -> <<"S","I","T","E","_","U","R","L">>
    [] s = "SITE_DESCRIPTION" ->
         <<"S","I","T","E","_","D","E","S","C","R","I","P","T","I","O","N">>
    [] s = "_PRIVATE"   -> <<"_","P","R","I","V","A","T","E">>
    [] s = "_private"   -> <<"_","p","r","i","v","a","t","e">>
    [] s = "lowercase"  -> <<"l","o","w","e","r","c","a","s","e">>
    [] s = "Mixed_Case" -> <<"M","i","x","e","d","_","C","a","s","e">>
    [] s = "V2"         -> <<"V","2">>
    [] s = "load_env"   -> <<"l","o","a","d","_","e","n","v">>
    [] s = "get"        -> <<"g","e","t">>
    [] s = "require"    -> <<"r","e","q","u","i","r","e">>
    [] s = "to_dict"    -> <<"t","o","_","d","i","c","t">>
    [] s = "__doc__"    -> <<"_","_","d","o","c","_","_">>

UpperChars ==
  {"A","B","C","D","E","F","G","H","I","J","K","L","M",
   "N","O","P","Q","R","S","T","U","V","W","X","Y","Z"}

LowerChars ==
  {"a","b","c","d","e","f","g","h","i","j","k","l","m",
   "n","o","p","q","r","s","t","u","v","w","x","y","z"}

\* All sequences over S of length at most n.
SeqsUpTo(S, n) == UNION {[1..k -> S] : k \in 0..n}

(* ------------------------------ globbing ------------------------------- *)

RECURSIVE FnMatch(_, _)
\* fnmatch.fnmatchcase on character sequences: "*" matches any run of
\* characters, "?" any one character, anything else itself.
FnMatch(pat, str) ==
  IF pat = <<>> THEN str = <<>>
  ELSE IF Head(pat) = "*"
       THEN FnMatch(Tail(pat), str) \/ (str # <<>> /\ FnMatch(pat, Tail(str)))
  ELSE IF str = <<>> THEN FALSE
  ELSE (Head(pat) = "?" \/ Head(pat) = Head(str)) /\ FnMatch(Tail(pat), Tail(str))

\* PurePath.match with a relative pattern: the pattern's segments are
\* matched against the last segments of the path, one glob per segment.
PathMatch(path, pattern) ==
  /\ Len(pattern) <= Len(path)
  /\ \A i \in 1..Len(pattern) :
       FnMatch(Chars(pattern[i]), Chars(path[Len(path) - Len(pattern) + i]))

(* ------------------------------ file trees ----------------------------- *)

DirNode == [kind |-> "dir", data |-> <<>>]

FileNode(text) == [kind |-> "file", data |-> text]

NoTree == [p \in {} |-> DirNode]

Exists(t, p) == p \in DOMAIN t

IsDir(t, p) == Exists(t, p) /\ t[p].kind = "dir"

IsFile(t, p) == Exists(t, p) /\ t[p].kind = "file"

IsPrefix(a, b) == Len(a) <= Len(b) /\ SubSeq(b, 1, Len(a)) = a

Prefixes(p) == {SubSeq(p, 1, i) : i \in 0..Len(p)}

Parent(p) == SubSeq(p, 1, Len(p) - 1)

\* The names of the direct children of directory p.
Children(t, p) == {q[Len(q)] : q \in {r \in DOMAIN t : Len(r) = Len(p) + 1 /\ IsPrefix(p, r)}}

\* Path.mkdir(parents=True) without exist_ok: an existing target is an error.
MkdirNoExistOk(t, p) ==
  IF Exists(t, p) THEN [fs |-> t, err |-> "FileExistsError"]
  ELSE IF \E q \in Prefixes(p) : IsFile(t, q) THEN [fs |-> t, err |-> "NotADirectoryError"]
  ELSE [fs |-> [q \in DOMAIN t \cup Prefixes(p) |-> IF q \in DOMAIN t THEN t[q] ELSE DirNode],
        err |-> "none"]

\* Path.mkdir(parents=True, exist_ok=True): creates p and its missing
\* ancestors; a file at p or at an ancestor of p is an error.
MkdirP(t, p) ==
  IF IsFile(t, p) THEN [fs |-> t, err |-> "FileExistsError"]
  ELSE IF \E q \in Prefixes(p) : IsFile(t, q) THEN [fs |-> t, err |-> "NotADirectoryError"]
  ELSE [fs |-> [q \in DOMAIN t \cup Prefixes(p) |-> IF q \in DOMAIN t THEN t[q] ELSE DirNode],
        err |-> "none"]

\* shutil.rmtree(p): p must be a directory; removes it and all below it.
RmTree(t, p) ==
  IF ~IsDir(t, p) THEN [fs |-> t, err |-> "NotADirectoryError"]
  ELSE [fs |-> [q \in {r \in DOMAIN t : ~IsPrefix(p, r)} |-> t[q]], err |-> "none"]

\* copytree told to ignore what matches "*.css" at every depth.
CopyTreeIgnoringCss(t, src, item, dest) ==
  IF Exists(t, dest) THEN [fs |-> t, err |-> "FileExistsError"]
  ELSE LET sub == {q \in DOMAIN src : IsPrefix(item, q) /\
                     (q = item \/ ~FnMatch(Chars("*.css"), Chars(q[Len(q)])))}
           new == {dest \o SubSeq(q, Len(item) + 1, Len(q)) : q \in sub}
       IN [fs |-> [r \in DOMAIN t \cup Prefixes(dest) \cup new |->
                     IF r \in new THEN src[item \o SubSeq(r, Len(dest) + 1, Len(r))]
                     ELSE IF r \in DOMAIN t THEN t[r]
                     ELSE DirNode],
           err |-> "none"]

\* shutil.copytree(item, dest): dest must not exist; it is made with its
\* missing ancestors and the whole subtree of item in the source tree
\* appears at it.
CopyTree(t, src, item, dest) ==
  IF Exists(t, dest) THEN [fs |-> t, err |-> "FileExistsError"]
  ELSE IF \E q \in Prefixes(dest) : IsFile(t, q) THEN [fs |-> t, err |-> "NotADirectoryError"]
  ELSE LET sub == {q \in DOMAIN src : IsPrefix(item, q)}
           new == {dest \o SubSeq(q, Len(item) + 1, Len(q)) : q \in sub}
       IN [fs |-> [r \in DOMAIN t \cup Prefixes(dest) \cup new |->
                     IF r \in new THEN src[item \o SubSeq(r, Len(dest) + 1, Len(r))]
                     ELSE IF r \in DOMAIN t THEN t[r]
                     ELSE DirNode],
           err |-> "none"]

\* Path.write_text / the write of shutil.copy2: creates or overwrites the
\* file at p; p must not be a directory and its parent must be one.
WriteFile(t, p, text) ==
  IF IsDir(t, p) THEN [fs |-> t, err |-> "IsADirectoryError"]
  ELSE IF ~IsDir(t, Parent(p)) THEN [fs |-> t, err |-> "FileNotFoundError"]
  ELSE [fs |-> [r \in DOMAIN t \cup {p} |-> IF r = p THEN FileNode(text) ELSE t[r]],
        err |-> "none"]

\* shutil.copy2(item, dest): when dest is a directory the file is copied
\* into it under its own name.
CopyFile(t, src, item, dest) ==
  LET target == IF IsDir(t, dest) THEN dest \o <<item[Len(item)]>> ELSE dest
  IN WriteFile(t, target, src[item].data)

(* ------------------------------ SiteBuilder ---------------------------- *)

\* static_dir, relative to base_path.
StaticDirPath == <<"src", "static">>

StaticDestAtRoot == <<>>

\* The destination of the static assets, relative to build_dir.
StaticDest == <<"static">>

ShouldExclude(name, exclude_patterns) ==
  \E i \in 1..Len(exclude_patterns) : PathMatch(StaticDirPath \o <<name>>, exclude_patterns[i])

\* One item of the loop of copy_static_assets, on the build tree t.
CopyItem(t, name) ==
  LET dest == StaticDest \o <<name>>
  IN IF IsDir(static_dir, <<name>>)
     THEN LET cleared == IF Exists(t, dest) THEN RmTree(t, dest) ELSE [fs |-> t, err |-> "none"]
          IN IF cleared.err # "none" THEN cleared
             ELSE CopyTree(cleared.fs, static_dir, <<name>>, dest)
     ELSE CopyFile(t, static_dir, <<name>>, dest)

RECURSIVE CopyItems(_, _, _, _)
\* The loop of copy_static_assets over the directory listing `items`,
\* from item i on; the first error ends it.
CopyItems(t, items, i, exclude_patterns) ==
  IF i > Len(items) THEN [fs |-> t, err |-> "none", copied |-> {}]
  ELSE IF ShouldExclude(items[i], exclude_patterns)
       THEN CopyItems(t, items, i + 1, exclude_patterns)
  ELSE LET one == CopyItem(t, items[i])
       IN IF one.err # "none" THEN [fs |-> one.fs, err |-> one.err, copied |-> {}]
          ELSE LET rest == CopyItems(one.fs, items, i + 1, exclude_patterns)
               IN [rest EXCEPT !.copied = @ \cup {items[i]}]

RECURSIVE EnsureDirs(_, _, _)
\* The loop of ensure_build_dirs over subdirs, from entry i on.
EnsureDirs(t, subdirs, i) ==
  IF i > Len(subdirs) THEN [fs |-> t, err |-> "none"]
  ELSE LET one == MkdirP(t, subdirs[i])
       IN IF one.err # "none" THEN one ELSE EnsureDirs(one.fs, subdirs, i + 1)

\* All orders in which a directory listing can present the set S.
Orders(S) == {o \in [1..Cardinality(S) -> S] : \A i, j \in DOMAIN o : o[i] = o[j] => i = j}

(* ------------------------------ templates ------------------------------ *)

Lit(text) == [type |-> "lit", text |-> text, name |-> ""]

Var(name) == [type |-> "var", text |-> <<>>, name |-> name]

\* An expression the engine rejects when it renders it.
Bad == [type |-> "bad", text |-> <<>>, name |-> ""]

\* The files of template_dir, parsed: literal text and {{ name }}
\* expressions; broken.html holds an expression the engine rejects.
Templates ==
  [n \in {"index.html", "about.html", "broken.html"} |->
     CASE n = "index.html"  -> <<Lit(<<"<h1>">>), Var("title"), Lit(<<"</h1>">>)>>
       [] n = "about.html"  -> <<Lit(<<"<h1>About ">>), Var("name"), Lit(<<"</h1>">>)>>
       [] n = "broken.html" -> <<Lit(<<"<p>">>), Bad, Lit(<<"</p>">>)>>]

\* Names a caller may ask for; "missing.html" is in no template directory.
TemplateNames == DOMAIN Templates \cup {"missing.html"}

EmptyContext == [n \in {} |-> <<>>]

\* markupsafe.escape on one token of a value (autoescape=True).
EscapeToken(tok) ==
  CASE tok = "<" -> "&lt;"
    [] tok = ">" -> "&gt;"
    [] tok = "&" -> "&amp;"
    [] tok = "'" -> "&#39;"
    [] tok = "\"" -> "&#34;"
    [] OTHER -> tok

Escape(value) == [i \in 1..Len(value) |-> EscapeToken(value[i])]

RECURSIVE RenderFrom(_, _, _)
\* template.render(**context) from segment i on: a name the context does
\* not define renders as nothing.
RenderFrom(segs, i, context) ==
  IF i > Len(segs) THEN [text |-> <<>>, err |-> "none"]
  ELSE IF segs[i].type = "bad" THEN [text |-> <<>>, err |-> "TemplateError"]
  ELSE LET here == IF segs[i].type = "lit" THEN segs[i].text
                   ELSE IF segs[i].name \in DOMAIN context
                        THEN Escape(context[segs[i].name])
                        ELSE <<>>
           rest == RenderFrom(segs, i + 1, context)
       IN IF rest.err # "none" THEN rest
          ELSE [text |-> here \o rest.text, err |-> "none"]

\* env.get_template(template_name) followed by template.render(**context).
Render(template_name, context) ==
  IF template_name \notin DOMAIN Templates
  THEN [text |-> <<>>, err |-> "TemplateNotFound"]
  ELSE RenderFrom(Templates[template_name], 1, context)

\* The parts of an output name, as pathlib splits it at "/".
Parts(name) ==
  CASE name = "index.html"      -> <<"index.html">>
    [] name = "about.html"      -> <<"about.html">>
    [] name = "broken.html"     -> <<"broken.html">>
    [] name = "missing.html"    -> <<"missing.html">>
    [] name = "home.html"       -> <<"home.html">>
    [] name = "pages/info.html" -> <<"pages", "info.html">>

OutputNameIgnored(template_name, output_name) == template_name

\* output_name or template_name: None and "" both fall back.
OutputName(template_name, output_name) ==
  IF output_name = "" THEN template_name ELSE output_name

\* render_template without the mkdir of the output's parent directory.
RenderTemplateOnNoParents(t, template_name, context, output_name) ==
  LET r == Render(template_name, context)
      output_path == Parts(OutputName(template_name, output_name))
  IN IF r.err # "none" THEN [fs |-> t, err |-> r.err, html |-> <<>>, written |-> <<>>]
     ELSE LET w == WriteFile(t, output_path, r.text)
          IN [fs |-> w.fs, err |-> w.err,
              html |-> IF w.err = "none" THEN r.text ELSE <<>>,
              written |-> IF w.err = "none" THEN <<output_path>> ELSE <<>>]

\* render_template on the build tree t: [fs, err, html, written].
RenderTemplateOn(t, template_name, context, output_name) ==
  LET r == Render(template_name, context)
      output_path == Parts(OutputName(template_name, output_name))
  IN IF r.err # "none" THEN [fs |-> t, err |-> r.err, html |-> <<>>, written |-> <<>>]
     ELSE LET made == MkdirP(t, Parent(output_path))
          IN IF made.err # "none"
             THEN [fs |-> made.fs, err |-> made.err, html |-> <<>>, written |-> <<>>]
             ELSE LET w == WriteFile(made.fs, output_path, r.text)
                  IN [fs |-> w.fs, err |-> w.err,
                      html |-> IF w.err = "none" THEN r.text ELSE <<>>,
                      written |-> IF w.err = "none" THEN <<output_path>> ELSE <<>>]

\* A page of render_pages: a bare template name or a (template, output) tuple.
Page(template_name) == [isTuple |-> FALSE, template |-> template_name, output |-> ""]

PagePair(template_name, output_name) ==
  [isTuple |-> TRUE, template |-> template_name, output |-> output_name]

PageTemplate(page) == page.template

PageOutput(page) == IF page.isTuple THEN page.output ELSE page.template

RECURSIVE RenderPagesSkippingFailures(_, _, _, _)
\* A loop that goes on to the next page after a page has failed, and
\* reports the first failure at the end.
RenderPagesSkippingFailures(t, pages, i, context) ==
  IF i > Len(pages) THEN [fs |-> t, err |-> "none", written |-> <<>>, failed |-> 0]
  ELSE LET one == RenderTemplateOn(t, PageTemplate(pages[i]), context, PageOutput(pages[i]))
           rest == RenderPagesSkippingFailures(one.fs, pages, i + 1, context)
       IN IF one.err # "none"
          THEN [rest EXCEPT !.err = one.err, !.failed = i]
          ELSE [rest EXCEPT !.written = one.written \o @]

RECURSIVE RenderPagesFrom(_, _, _, _)
\* The loop of render_pages from page i on; the first error ends it.
RenderPagesFrom(t, pages, i, context) ==
  IF i > Len(pages) THEN [fs |-> t, err |-> "none", written |-> <<>>, failed |-> 0]
  ELSE LET one == RenderTemplateOn(t, PageTemplate(pages[i]), context, PageOutput(pages[i]))
       IN IF one.err # "none"
          THEN [fs |-> one.fs, err |-> one.err, written |-> <<>>, failed |-> i]
          ELSE LET rest == RenderPagesFrom(one.fs, pages, i + 1, context)
               IN [rest EXCEPT !.written = one.written \o @]

(* ------------------------------ inputs --------------------------------- *)

\* The static source directory as the tests' fixture builds it.
FixtureStatic ==
  [p \in {<<>>, <<"style.css">>, <<"css">>, <<"css", "main.css">>} |->
     CASE p = <<"style.css">>       -> FileNode(<<"body { color: black; }">>)
       [] p = <<"css", "main.css">> -> FileNode(<<".main { display: block; }">>)
       [] OTHER                     -> DirNode]

\* The same directory after an edit of the sources: style.css rewritten,
\* css/main.css replaced by css/logo.css, an empty directory img added.
EditedStatic ==
  [p \in {<<>>, <<"style.css">>, <<"css">>, <<"css", "logo.css">>, <<"img">>} |->
     CASE p = <<"style.css">>       -> FileNode(<<"body { color: white; }">>)
       [] p = <<"css", "logo.css">> -> FileNode(<<".logo { float: left; }">>)
       [] OTHER                     -> DirNode]

StaticTrees == {NoTree, FixtureStatic, EditedStatic}

SubdirNames == {<<"css">>, <<"static", "css">>}

Patterns == {<<"*.css">>, <<"c?s">>, <<"css", "main.css">>, <<"*.CSS">>}

HelloContext == [n \in {"title"} |-> <<"Hello World">>]

Contexts ==
  {EmptyContext,
   HelloContext,
   [n \in {"title", "name"} |-> IF n = "title" THEN <<"<", "b", ">">> ELSE <<"Hardboiled">>]}

OutputNames == {"", "home.html", "pages/info.html"}

PageEntries ==
  {Page("index.html"), Page("missing.html"), Page("broken.html"),
   PagePair("index.html", "home.html"), PagePair("about.html", "pages/info.html")}

NoEnv == [k \in {} |-> ""]

(* ------------------------------ Config --------------------------------- *)

\* Python's None, as a default or a result.
None == "<None>"

\* str.isupper: no lowercase character and at least one uppercase one.
IsUpper(chars) ==
  /\ \A i \in 1..Len(chars) : chars[i] \notin LowerChars
  /\ \E i \in 1..Len(chars) : chars[i] \in UpperChars

StartsWith(chars, c) == Len(chars) > 0 /\ chars[1] = c

\* What dir() finds on every configuration type: the base class's methods
\* and the attributes every class has.
BaseAttrs ==
  [k \in {"load_env", "get", "require", "to_dict", "__doc__"} |-> "<" \o k \o ">"]

\* The attributes a configuration type adds in its class body.
OwnAttrs(type) ==
  CASE type = "Config" -> NoEnv
    [] type = "TestConfig" ->
         [k \in {"SITE_NAME", "SITE_URL", "_private", "lowercase"} |->
            CASE k = "SITE_NAME" -> "Test"
              [] k = "SITE_URL"  -> "https://test.com"
              [] OTHER           -> "hidden"]
    [] type = "ExampleConfig" ->
         [k \in {"SITE_NAME", "_private", "lowercase"} |->
            IF k = "SITE_NAME" THEN "Example" ELSE "hidden"]
    [] type = "EdgeConfig" ->
         [k \in {"SITE_NAME", "_PRIVATE", "Mixed_Case", "V2"} |->
            CASE k = "SITE_NAME" -> "Edge"
              [] k = "V2"        -> "2"
              [] OTHER           -> "hidden"]

ConfigTypes == {"Config", "TestConfig", "ExampleConfig", "EdgeConfig"}

\* dir(self) with getattr: the type's own attributes over the inherited ones.
Attrs(type) ==
  [k \in DOMAIN BaseAttrs \cup DOMAIN OwnAttrs(type) |->
     IF k \in DOMAIN OwnAttrs(type) THEN OwnAttrs(type)[k] ELSE BaseAttrs[k]]

ExposedIgnoringUnderscore(key) == IsUpper(Chars(key))

\* The filter of to_dict.
Exposed(key) == IsUpper(Chars(key)) /\ ~StartsWith(Chars(key), "_")

ToDictOf(type) == [k \in {a \in DOMAIN Attrs(type) : Exposed(a)} |-> Attrs(type)[k]]

\* os.environ.get(key, default).
EnvGet(e, key, default) == IF key \in DOMAIN e THEN e[key] ELSE default

MissingWhenEmpty(value) == value = None \/ value = ""

\* The test of require: value is None.
Missing(value) == value = None

RequireMessage(key) == <<"Required environment variable '", key, "' is not set">>

\* load_dotenv(env_path) without override: a variable the environment has
\* already keeps its value.
MergeDotEnv(e, file) ==
  [k \in DOMAIN e \cup DOMAIN file |-> IF k \in DOMAIN e THEN e[k] ELSE file[k]]

Keys == {"SITE_NAME", "DEBUG", "NONEXISTENT_VAR", "DEFINITELY_NOT_SET_VAR"}

Defaults == {None, "default_value"}

\* The process environment when the program starts.
StartEnvs ==
  {NoEnv,
   [k \in {"DEBUG"} |-> ""],
   [k \in {"SITE_NAME", "DEBUG"} |-> IF k = "SITE_NAME" THEN "Shell Site" ELSE "1"]}

\* The .env files load_env may be pointed at; "absent" is a path with no file.
DotEnvFiles == {"absent", "empty", "site", "site+debug"}

DotEnv(file) ==
  CASE file = "site"       -> [k \in {"SITE_NAME"} |-> "Dotenv Site"]
    [] file = "site+debug" -> [k \in {"SITE_NAME", "DEBUG"} |->
                                 IF k = "SITE_NAME" THEN "Dotenv Site" ELSE "0"]
    [] OTHER               -> NoEnv

\* The skeleton's configuration type (src/skeleton/config.py): the names its
\* class body assigns and the built-in default of each.
SiteDefaults ==
  [k \in {"SITE_NAME", "SITE_URL", "SITE_DESCRIPTION"} |->
     CASE k = "SITE_NAME" -> "My Site"
       [] k = "SITE_URL"  -> "https://example.com"
       [] OTHER           -> "A static site built with hardboiled"]

\* The class body, executed when the module config is imported, with the
\* process environment being e at that moment.
SiteOwnAttrs(e) == [k \in DOMAIN SiteDefaults |-> EnvGet(e, k, SiteDefaults[k])]

\* dir(self) with getattr on an instance of the skeleton's type whose class
\* attributes are own.
SiteAttrs(own) ==
  [k \in DOMAIN BaseAttrs \cup DOMAIN own |->
     IF k \in DOMAIN own THEN own[k] ELSE BaseAttrs[k]]

\* Config().to_dict() of the skeleton's type.
SiteToDict(own) ==
  [k \in {a \in DOMAIN SiteAttrs(own) : Exposed(a)} |-> SiteAttrs(own)[k]]

\* A dictionary of strings as a template context.
AsContext(dict) == [k \in DOMAIN dict |-> <<dict[k]>>]

\* The years datetime.now().year may give during a build.
Years == {2026, 2027}

(* ------------------------------ actions -------------------------------- *)

\* The record of a call that has just returned or raised: its arguments,
\* the build tree before it, what it returned or raised, and what it copied
\* or wrote.  Between calls the record is NoCall.
NoCall ==
  [op |-> "none", subdirs |-> <<>>, patterns |-> <<>>, template |-> "", output |-> "",
   pages |-> <<>>, context |-> EmptyContext, pre |-> NoTree, ret |-> <<>>,
   err |-> "none", copied |-> {}, written |-> <<>>, failed |-> 0]

NoConfigCall == [op |-> "none", key |-> "", default |-> "", ret |-> "", err |-> "none",
                 message |-> <<>>, pre |-> NoEnv, type |-> "", dict |-> NoEnv]

\* The driver (src/skeleton/main.py) as a process: where it is, the
\* environment it was started with, the .env file in its working directory,
\* the class attributes of its configuration type, the template globals it
\* has added, the context it has built and the pages it has written.
\* NoDriver is no driver process at all.
NoDriver ==
  [pc |-> "off", start |-> NoEnv, file |-> "absent", attrs |-> NoEnv,
   globals |-> {}, context |-> EmptyContext, written |-> <<>>, err |-> "none"]

\* A driver process that has just been started.
Started(e, file) == [NoDriver EXCEPT !.pc = "start", !.start = e, !.file = file]

Idle == last.op = "none" /\ cfg.op = "none"

EnsureBuildDirsOn(t, subdirs) ==
  LET root == MkdirP(t, <<>>)
  IN IF root.err # "none" THEN root ELSE EnsureDirs(root.fs, subdirs, 1)

ensure_build_dirs(subdirs) ==
  LET r == EnsureBuildDirsOn(build_dir, subdirs)
  IN /\ Idle
     /\ build_dir' = r.fs
     /\ last' = [NoCall EXCEPT !.op = "ensure_build_dirs", !.subdirs = subdirs,
                               !.pre = build_dir, !.err = r.err]
     /\ UNCHANGED <<static_dir, environ, cfg, driver>>

\* copy_static_assets with the directory listing in the order `items`.
CopyStaticAssetsOn(t, items, exclude_patterns) ==
  IF ~Exists(static_dir, <<>>) THEN [fs |-> t, err |-> "none", copied |-> {}]
  ELSE LET made == MkdirP(t, StaticDest)
       IN IF made.err # "none" THEN [fs |-> made.fs, err |-> made.err, copied |-> {}]
          ELSE CopyItems(made.fs, items, 1, exclude_patterns)

copy_static_assets(exclude_patterns) ==
  \E items \in Orders(Children(static_dir, <<>>)) :
    LET r == CopyStaticAssetsOn(build_dir, items, exclude_patterns)
    IN /\ Idle
       /\ build_dir' = r.fs
       /\ last' = [NoCall EXCEPT !.op = "copy_static_assets", !.patterns = exclude_patterns,
                                 !.pre = build_dir, !.err = r.err, !.copied = r.copied]
       /\ UNCHANGED <<static_dir, environ, cfg, driver>>

render_template(template_name, context, output_name) ==
  LET r == RenderTemplateOn(build_dir, template_name, context, output_name)
  IN /\ Idle
     /\ build_dir' = r.fs
     /\ last' = [NoCall EXCEPT !.op = "render_template", !.template = template_name,
                               !.context = context, !.output = output_name,
                               !.pre = build_dir, !.ret = r.html, !.err = r.err,
                               !.written = r.written]
     /\ UNCHANGED <<static_dir, environ, cfg, driver>>

render_pages(pages, context) ==
  LET r == RenderPagesFrom(build_dir, pages, 1, context)
  IN /\ Idle
     /\ build_dir' = r.fs
     /\ last' = [NoCall EXCEPT !.op = "render_pages", !.pages = pages,
                               !.context = context, !.pre = build_dir, !.err = r.err,
                               !.written = r.written, !.failed = r.failed]
     /\ UNCHANGED <<static_dir, environ, cfg, driver>>

\* rmtree without the test that the build directory exists.
CleanOnUnguarded(t) ==
  IF ~Exists(t, <<>>) THEN [fs |-> t, err |-> "FileNotFoundError"] ELSE RmTree(t, <<>>)

CleanOn(t) == IF Exists(t, <<>>) THEN RmTree(t, <<>>) ELSE [fs |-> t, err |-> "none"]

clean ==
  LET r == CleanOn(build_dir)
  IN /\ Idle
     /\ build_dir' = r.fs
     /\ last' = [NoCall EXCEPT !.op = "clean", !.pre = build_dir, !.err = r.err]
     /\ UNCHANGED <<static_dir, environ, cfg, driver>>

\* The sources change between two builds.
EditStatic ==
  /\ Idle
  /\ static_dir' \in StaticTrees \ {static_dir}
  /\ UNCHANGED <<build_dir, last, environ, cfg, driver>>

\* The caller has the call's result; the next call can start.
Return ==
  /\ ~Idle
  /\ last' = NoCall
  /\ cfg' = NoConfigCall
  /\ UNCHANGED <<static_dir, build_dir, environ, driver>>

load_env(file) ==
  /\ Idle
  /\ environ' = MergeDotEnv(environ, DotEnv(file))
  /\ cfg' = [NoConfigCall EXCEPT !.op = "load_env", !.key = file, !.pre = environ,
                                 !.ret = IF DOMAIN DotEnv(file) # {} THEN "True" ELSE "False"]
  /\ UNCHANGED <<static_dir, build_dir, last, driver>>

get(key, default) ==
  /\ Idle
  /\ cfg' = [NoConfigCall EXCEPT !.op = "get", !.key = key, !.default = default,
                                 !.pre = environ, !.ret = EnvGet(environ, key, default)]
  /\ UNCHANGED <<static_dir, build_dir, last, environ, driver>>

require(key) ==
  LET value == EnvGet(environ, key, None)
  IN /\ Idle
     /\ cfg' = IF Missing(value)
               THEN [NoConfigCall EXCEPT !.op = "require", !.key = key, !.pre = environ,
                                         !.ret = None, !.err = "KeyError",
                                         !.message = RequireMessage(key)]
               ELSE [NoConfigCall EXCEPT !.op = "require", !.key = key, !.pre = environ,
                                         !.ret = value]
     /\ UNCHANGED <<static_dir, build_dir, last, environ, driver>>

to_dict(type) ==
  /\ Idle
  /\ cfg' = [NoConfigCall EXCEPT !.op = "to_dict", !.type = type, !.pre = environ,
                                 !.dict = ToDictOf(type)]
  /\ UNCHANGED <<static_dir, build_dir, last, environ, driver>>

(* ------------------------------ the driver ----------------------------- *)

\* Where the driver goes after a call: on, or out with the exception.
After(err, pc) == IF err = "none" THEN pc ELSE "failed"

\* `from config import Config` at the top of main.py: the class body of the
\* skeleton's type runs and reads the environment as it is now.
import_config ==
  /\ driver.pc = "start"
  /\ driver' = [driver EXCEPT !.pc = "imported", !.attrs = SiteOwnAttrs(environ)]
  /\ UNCHANGED <<static_dir, build_dir, last, environ, cfg>>

\* build_site: Config.load_env() on the .env file of the working directory.
build_site_load_env ==
  /\ driver.pc = "imported"
  /\ environ' = MergeDotEnv(environ, DotEnv(driver.file))
  /\ driver' = [driver EXCEPT !.pc = "loaded"]
  /\ UNCHANGED <<static_dir, build_dir, last, cfg>>

\* build_site: builder.ensure_build_dirs(subdirs=["static/css"]).
build_site_ensure_build_dirs ==
  LET r == EnsureBuildDirsOn(build_dir, <<<<"static", "css">>>>)
  IN /\ driver.pc = "loaded"
     /\ build_dir' = r.fs
     /\ driver' = [driver EXCEPT !.pc = After(r.err, "dirs"), !.err = r.err]
     /\ UNCHANGED <<static_dir, last, environ, cfg>>

\* build_site: builder.copy_static_assets().
build_site_copy_static_assets ==
  \E items \in Orders(Children(static_dir, <<>>)) :
    LET r == CopyStaticAssetsOn(build_dir, items, <<>>)
    IN /\ driver.pc = "dirs"
       /\ build_dir' = r.fs
       /\ driver' = [driver EXCEPT !.pc = After(r.err, "assets"), !.err = r.err]
       /\ UNCHANGED <<static_dir, last, environ, cfg>>

\* build_site: builder.add_global("current_year", current_year()).
build_site_add_global ==
  \E year \in Years :
    /\ driver.pc = "assets"
    /\ driver' = [driver EXCEPT !.pc = "globals",
                                !.globals = @ \cup {<<"current_year", year>>}]
    /\ UNCHANGED <<static_dir, build_dir, last, environ, cfg>>

\* build_site: context = Config().to_dict().
build_site_to_dict ==
  /\ driver.pc = "globals"
  /\ driver' = [driver EXCEPT !.pc = "context",
                              !.context = AsContext(SiteToDict(driver.attrs))]
  /\ UNCHANGED <<static_dir, build_dir, last, environ, cfg>>

\* build_site: builder.render_pages(["index.html"], context), then the
\* message that the site was built.
build_site_render_pages ==
  LET r == RenderPagesFrom(build_dir, <<Page("index.html")>>, 1, driver.context)
  IN /\ driver.pc = "context"
     /\ build_dir' = r.fs
     /\ driver' = [driver EXCEPT !.pc = After(r.err, "built"), !.err = r.err,
                                 !.written = r.written]
     /\ UNCHANGED <<static_dir, last, environ, cfg>>

\* The process has ended; the script is run again from the same shell, over
\* sources that may have been edited and the build directory as it was left.
RunAgain ==
  /\ driver.pc \in {"built", "failed"}
  /\ driver' = Started(driver.start, driver.file)
  /\ environ' = driver.start
  /\ static_dir' \in StaticTrees
  /\ UNCHANGED <<build_dir, last, cfg>>

(* ------------------------------ specifications ------------------------- *)

Init ==
  /\ static_dir \in StaticTrees
  /\ build_dir = NoTree
  /\ last = NoCall
  /\ environ = NoEnv
  /\ cfg = NoConfigCall
  /\ driver = NoDriver

\* Directory set-up, asset copying and cleaning, over changing sources.
NextAssets ==
  \/ \E subdirs \in SeqsUpTo(SubdirNames, MaxSubdirs) : ensure_build_dirs(subdirs)
  \/ \E exclude_patterns \in SeqsUpTo(Patterns, MaxPatterns) : copy_static_assets(exclude_patterns)
  \/ clean
  \/ EditStatic
  \/ Return

SpecAssets == Init /\ [][NextAssets]_vars

\* Rendering and cleaning.
NextRender ==
  \/ \E template_name \in TemplateNames, context \in Contexts, output_name \in OutputNames :
       render_template(template_name, context, output_name)
  \/ \E pages \in SeqsUpTo(PageEntries, MaxPages), context \in Contexts :
       render_pages(pages, context)
  \/ clean
  \/ Return

InitRender ==
  /\ static_dir = NoTree
  /\ build_dir = NoTree
  /\ last = NoCall
  /\ environ = NoEnv
  /\ cfg = NoConfigCall
  /\ driver = NoDriver

SpecRender == InitRender /\ [][NextRender]_vars

\* Every operation of SiteBuilder, one page and one context at a time.
Next ==
  \/ \E subdirs \in SeqsUpTo(SubdirNames, MaxSubdirs) : ensure_build_dirs(subdirs)
  \/ \E exclude_patterns \in SeqsUpTo(Patterns, MaxPatterns) : copy_static_assets(exclude_patterns)
  \/ \E template_name \in TemplateNames, output_name \in OutputNames :
       render_template(template_name, HelloContext, output_name)
  \/ \E page \in PageEntries : render_pages(<<page>>, HelloContext)
  \/ clean
  \/ Return

Spec == Init /\ [][Next]_vars

\* The operations of Config on the process environment.
InitConfig ==
  /\ static_dir = NoTree
  /\ build_dir = NoTree
  /\ last = NoCall
  /\ environ \in StartEnvs
  /\ cfg = NoConfigCall
  /\ driver = NoDriver

NextConfig ==
  \/ \E file \in DotEnvFiles : load_env(file)
  \/ \E key \in Keys, default \in Defaults : get(key, default)
  \/ \E key \in Keys : require(key)
  \/ \E type \in ConfigTypes : to_dict(type)
  \/ Return

SpecConfig == InitConfig /\ [][NextConfig]_vars

\* The driver's build run, from the start of the process.
InitDriver ==
  /\ static_dir \in StaticTrees
  /\ build_dir = NoTree
  /\ last = NoCall
  /\ environ \in StartEnvs
  /\ cfg = NoConfigCall
  /\ \E file \in DotEnvFiles : driver = Started(environ, file)

NextDriver ==
  \/ import_config
  \/ build_site_load_env
  \/ build_site_ensure_build_dirs
  \/ build_site_copy_static_assets
  \/ build_site_add_global
  \/ build_site_to_dict
  \/ build_site_render_pages
  \/ RunAgain

SpecDriver == InitDriver /\ [][NextDriver]_vars

(* ------------------------------ claims --------------------------------- *)

\* The tree below p, with paths relative to p.
Subtree(t, p) ==
  [rel \in {SubSeq(q, Len(p) + 1, Len(q)) : q \in {r \in DOMAIN t : IsPrefix(p, r)}} |->
     t[p \o rel]]

\* A name matches a pattern when the pattern is one glob and the glob
\* matches the whole name.
NameMatches(name, pattern) == Len(pattern) = 1 /\ FnMatch(Chars(pattern[1]), Chars(name))

NameExcluded(name, patterns) == \E i \in 1..Len(patterns) : NameMatches(name, patterns[i])

CopyReturned == last.op = "copy_static_assets" /\ last.err = "none"

C2_CopiesDirectlyUnderBuild ==
  (CopyReturned /\ Exists(last.pre, <<>>) /\ Exists(static_dir, <<>>)) =>
    \A c \in Children(static_dir, <<>>) :
      ~NameExcluded(c, last.patterns) =>
        IF IsDir(static_dir, <<c>>)
        THEN \A rel \in DOMAIN Subtree(static_dir, <<c>>) : Exists(build_dir, <<c>> \o rel)
        ELSE IsFile(build_dir, <<c>>)

EndsWithCss(chars) ==
  Len(chars) >= 4 /\ SubSeq(chars, Len(chars) - 3, Len(chars)) = <<".", "c", "s", "s">>

\* C3: with the exclude pattern "*.css" among its patterns,
\* copy_static_assets copies no direct child whose name ends in .css and
\* leaves what the build tree held at its place as it was, and copies every
\* sub-directory whose own name matches no pattern with all of its
\* contents, the nested files that end in .css included.
C3_ExcludeTopLevelOnly ==
  (CopyReturned /\ \E i \in 1..Len(last.patterns) : last.patterns[i] = <<"*.css">>) =>
    \A c \in Children(static_dir, <<>>) :
      IF EndsWithCss(Chars(c))
      THEN /\ c \notin last.copied
           /\ Subtree(build_dir, <<"static", c>>) = Subtree(last.pre, <<"static", c>>)
      ELSE (IsDir(static_dir, <<c>>) /\ ~NameExcluded(c, last.patterns)) =>
             /\ c \in last.copied
             /\ Subtree(build_dir, <<"static", c>>) = Subtree(static_dir, <<c>>)

C3_Witness ==
  /\ CopyReturned
  /\ last.patterns = <<(<<"*.css">>)>>
  /\ static_dir = FixtureStatic
  /\ ~Exists(build_dir, <<"static", "style.css">>)
  /\ build_dir[<<"static", "css", "main.css">>] = static_dir[<<"css", "main.css">>]
  /\ ~Exists(last.pre, <<"static", "css", "main.css">>)

RenderReturned == last.op = "render_template" /\ last.err = "none"

\* The path render_template is to write: the output name, or the template
\* name when no output name is given.
OutputPathOf(template_name, output_name) ==
  IF output_name = "" THEN Parts(template_name) ELSE Parts(output_name)

\* A file at p that the last call created or whose content it changed.
FileTouched(p) ==
  /\ IsFile(build_dir, p)
  /\ ~(Exists(last.pre, p) /\ last.pre[p] = build_dir[p])

\* C4: render_template returns for every template that resolves and
\* renders, with or without the build directory and the output's parent
\* directory in place; when it returns, the file <build_dir>/<output_name>
\* (the template name when no output name is given) exists and holds
\* exactly the returned text, whatever it held before; and the returned
\* text is the rendering: "<h1>{{ title }}</h1>" with title "Hello World"
\* gives "<h1>Hello World</h1>", with title "<b>" the escaped "&lt;b&gt;".
C4_RenderWritesReturnedText ==
  last.op = "render_template" =>
    /\ last.template \in {"index.html", "about.html"} => last.err = "none"
    /\ last.err = "none" =>
         LET path == OutputPathOf(last.template, last.output)
         IN /\ IsFile(build_dir, path)
            /\ build_dir[path].data = last.ret
            /\ last.written = <<path>>
            /\ (last.template = "index.html" /\ last.context = HelloContext) =>
                 last.ret = <<"<h1>", "Hello World", "</h1>">>
            /\ (last.template = "index.html" /\ "name" \in DOMAIN last.context) =>
                 last.ret = <<"<h1>", "&lt;", "b", "&gt;", "</h1>">>
            /\ (last.template = "about.html" /\ last.context = EmptyContext) =>
                 last.ret = <<"<h1>About ", "</h1>">>

C4_Witness ==
  /\ RenderReturned
  /\ last.template = "about.html" /\ last.output = "pages/info.html"
  /\ "name" \in DOMAIN last.context
  /\ ~Exists(last.pre, <<>>)
  /\ build_dir[<<"pages", "info.html">>].data = <<"<h1>About ", "Hardboiled", "</h1>">>

C4_WitnessOverwrite ==
  /\ RenderReturned
  /\ IsFile(last.pre, <<"home.html">>)
  /\ IsFile(build_dir, <<"home.html">>)
  /\ last.pre[<<"home.html">>] # build_dir[<<"home.html">>]

\* The output of a page: the second member of a (template, output) pair,
\* the name itself for a bare template name.
PageOut(page) == IF page.isTuple THEN page.output ELSE page.template

\* C5: a render_template call with an explicit output name other than the
\* template name creates or changes no file but <build_dir>/<output_name>,
\* so <build_dir>/<template_name> is neither created nor changed; a
\* render_pages call creates or changes no file but the outputs of its
\* pages, and when it returns the output of every page exists, for a bare
\* template name the file of the same name.
C5_OnlyOutputWritten ==
  /\ (last.op = "render_template" /\ last.output \notin {"", last.template}) =>
       /\ \A p \in DOMAIN build_dir : FileTouched(p) => p = Parts(last.output)
       /\ \A p \in DOMAIN last.pre : IsFile(last.pre, p) => IsFile(build_dir, p)
       /\ ~FileTouched(Parts(last.template))
       /\ last.err = "none" => IsFile(build_dir, Parts(last.output))
  /\ last.op = "render_pages" =>
       /\ \A p \in DOMAIN build_dir :
            FileTouched(p) => \E i \in 1..Len(last.pages) : p = Parts(PageOut(last.pages[i]))
       /\ \A p \in DOMAIN last.pre : IsFile(last.pre, p) => IsFile(build_dir, p)
       /\ \A i \in 1..Len(last.pages) :
            (last.pages[i].isTuple /\ last.pages[i].output # last.pages[i].template
               /\ \A j \in 1..Len(last.pages) :
                    Parts(PageOut(last.pages[j])) # Parts(last.pages[i].template)) =>
              ~FileTouched(Parts(last.pages[i].template))
       /\ last.err = "none" =>
            \A i \in 1..Len(last.pages) : IsFile(build_dir, Parts(PageOut(last.pages[i])))

C5_Witness ==
  /\ last.op = "render_pages" /\ last.err = "none"
  /\ last.pages = <<PagePair("index.html", "home.html")>>
  /\ ~Exists(last.pre, <<"home.html">>)
  /\ IsFile(build_dir, <<"home.html">>)
  /\ ~Exists(build_dir, <<"index.html">>)

\* A template whose rendering fails: it is not found, or the engine
\* rejects it.
RenderingFails(template_name) == template_name \in {"missing.html", "broken.html"}

\* The index of the first page of the call whose rendering fails, or one
\* past the last page.
FirstFailing(pages) ==
  IF \E i \in 1..Len(pages) : RenderingFails(pages[i].template)
  THEN CHOOSE i \in 1..Len(pages) :
         /\ RenderingFails(pages[i].template)
         /\ \A j \in 1..(i - 1) : ~RenderingFails(pages[j].template)
  ELSE Len(pages) + 1

\* C6: render_pages writes the outputs of its pages in list order, each
\* rendered with the call's one context, up to the first page whose
\* rendering fails; that page ends the call with its error (template not
\* found, or rendering error), and the build tree differs from the one
\* before the call by exactly the outputs of the pages before it; a call
\* with no failing page returns with every output written.
C6_PagesInOrderUntilFailure ==
  last.op = "render_pages" =>
    LET k == FirstFailing(last.pages)
    IN /\ last.written = [i \in 1..(k - 1) |-> Parts(PageOut(last.pages[i]))]
       /\ IF k > Len(last.pages) THEN last.err = "none" /\ last.failed = 0
          ELSE /\ last.failed = k
               /\ last.err = IF last.pages[k].template = "missing.html"
                             THEN "TemplateNotFound" ELSE "TemplateError"
       /\ \A p \in DOMAIN build_dir \cup DOMAIN last.pre :
            IF \E i \in 1..(k - 1) : p = Parts(PageOut(last.pages[i]))
            THEN LET i == CHOOSE i \in 1..(k - 1) :
                            /\ p = Parts(PageOut(last.pages[i]))
                            /\ \A j \in (i + 1)..(k - 1) : p # Parts(PageOut(last.pages[j]))
                 IN /\ IsFile(build_dir, p)
                    /\ build_dir[p].data = Render(last.pages[i].template, last.context).text
            ELSE IF \E i \in 1..(k - 1) : IsPrefix(p, Parts(PageOut(last.pages[i])))
                 THEN IsDir(build_dir, p)
                 ELSE p \in DOMAIN build_dir /\ p \in DOMAIN last.pre /\ build_dir[p] = last.pre[p]

C6_Witness ==
  /\ last.op = "render_pages"
  /\ last.pages = <<PagePair("about.html", "pages/info.html"), Page("broken.html")>>
  /\ last.err = "TemplateError"
  /\ ~Exists(last.pre, <<>>)
  /\ IsFile(build_dir, <<"pages", "info.html">>)
  /\ ~Exists(build_dir, <<"broken.html">>)

\* C7: ensure_build_dirs raises nothing unless a file lies where a
\* directory is to be; after a call that raised nothing the build root and
\* every listed sub-directory are directories and everything the build tree
\* held before is still there unchanged; a call on a tree that already has
\* them all raises nothing and changes nothing, and so does a second call
\* with the same arguments.
C7_EnsureBuildDirsIdempotent ==
  last.op = "ensure_build_dirs" =>
    /\ (\A i \in 1..Len(last.subdirs) : \A q \in Prefixes(last.subdirs[i]) :
          ~IsFile(last.pre, q)) => last.err = "none"
    /\ last.err = "none" =>
         /\ IsDir(build_dir, <<>>)
         /\ \A i \in 1..Len(last.subdirs) : IsDir(build_dir, last.subdirs[i])
         /\ \A p \in DOMAIN last.pre : p \in DOMAIN build_dir /\ build_dir[p] = last.pre[p]
         /\ \A p \in DOMAIN build_dir : IsFile(build_dir, p) => p \in DOMAIN last.pre
         /\ (IsDir(last.pre, <<>>) /\ \A i \in 1..Len(last.subdirs) :
               IsDir(last.pre, last.subdirs[i])) => build_dir = last.pre
         /\ EnsureBuildDirsOn(build_dir, last.subdirs) = [fs |-> build_dir, err |-> "none"]

C7_Witness ==
  /\ last.op = "ensure_build_dirs" /\ last.err = "none"
  /\ last.subdirs = <<(<<"static", "css">>)>>
  /\ IsDir(last.pre, <<"static", "css">>)
  /\ IsFile(last.pre, <<"static", "css", "main.css">>)
  /\ IsFile(last.pre, <<"home.html">>)
  /\ build_dir = last.pre

\* C8: clean never raises, with or without a build directory; after it the
\* build directory and everything under it is gone, whatever
\* ensure_build_dirs, copy_static_assets, render_template and render_pages
\* had put there; on an absent build directory it changes nothing.
C8_CleanRemovesBuildDir ==
  last.op = "clean" =>
    /\ last.err = "none"
    /\ DOMAIN build_dir = {}
    /\ ~Exists(last.pre, <<>>) => build_dir = last.pre

C8_Witness ==
  /\ last.op = "clean"
  /\ IsDir(last.pre, <<"css">>)
  /\ IsFile(last.pre, <<"static", "style.css">>)
  /\ IsFile(last.pre, <<"home.html">>)
  /\ IsFile(last.pre, <<"pages", "info.html">>)
  /\ ~Exists(build_dir, <<>>)

C8_WitnessAbsent == last.op = "clean" /\ ~Exists(last.pre, <<>>) /\ Exists(static_dir, <<>>)

\* C9: for a key the environment does not set, require raises KeyError with
\* a message that names the key and get returns the default; for a key the
\* environment sets, the empty value included, both return its value; the
\* environment is the same after either call.
C9_GetAndRequire ==
  /\ cfg.op = "require" =>
       /\ environ = cfg.pre
       /\ IF cfg.key \in DOMAIN cfg.pre
          THEN cfg.err = "none" /\ cfg.ret = cfg.pre[cfg.key]
          ELSE /\ cfg.err = "KeyError"
               /\ \E i \in 1..Len(cfg.message) : cfg.message[i] = cfg.key
  /\ cfg.op = "get" =>
       /\ environ = cfg.pre
       /\ cfg.err = "none"
       /\ cfg.ret = IF cfg.key \in DOMAIN cfg.pre THEN cfg.pre[cfg.key] ELSE cfg.default

C9_Witness ==
  /\ cfg.op = "require"
  /\ cfg.key = "DEFINITELY_NOT_SET_VAR"
  /\ cfg.err = "KeyError"
  /\ "SITE_NAME" \in DOMAIN environ

C9_WitnessSet == cfg.op = "require" /\ cfg.key = "DEBUG" /\ cfg.ret = "" /\ cfg.err = "none"

\* A name with no lowercase letter in it.
NoLowercase(chars) == \A i \in 1..Len(chars) : chars[i] \notin LowerChars

\* C10: the keys of to_dict are exactly the attribute names of the type,
\* inherited ones included, that have no lowercase letter and do not begin
\* with an underscore, each with the attribute's value; a type defining
\* SITE_NAME, _private and lowercase gives SITE_NAME alone.
C10_ToDictUppercaseOnly ==
  cfg.op = "to_dict" =>
    /\ DOMAIN cfg.dict =
         {k \in DOMAIN Attrs(cfg.type) : NoLowercase(Chars(k)) /\ Chars(k)[1] # "_"}
    /\ \A k \in DOMAIN cfg.dict : cfg.dict[k] = Attrs(cfg.type)[k]
    /\ cfg.type = "ExampleConfig" => DOMAIN cfg.dict = {"SITE_NAME"}
    /\ cfg.type = "TestConfig" => DOMAIN cfg.dict = {"SITE_NAME", "SITE_URL"}
    /\ environ = cfg.pre

C10_Witness ==
  /\ cfg.op = "to_dict"
  /\ cfg.type = "EdgeConfig"
  /\ "_PRIVATE" \in DOMAIN Attrs(cfg.type)
  /\ cfg.dict = [k \in {"SITE_NAME", "V2"} |-> IF k = "V2" THEN "2" ELSE "Edge"]

\* C11: in the driver's build run, a variable that only the .env file
\* defines reaches the context of render_pages with the .env file's value:
\* once the driver has built the context it passes to render_pages, every
\* name of the configuration type that the .env file defines and the
\* process environment at start does not has, in that context, the value
\* the .env file gives it.
C11_DotEnvValueInContext ==
  driver.pc \in {"context", "built"} =>
    \A k \in DOMAIN SiteDefaults :
      (k \in DOMAIN DotEnv(driver.file) /\ k \notin DOMAIN driver.start) =>
        /\ k \in DOMAIN driver.context
        /\ driver.context[k] = <<DotEnv(driver.file)[k]>>

====
